---- MODULE Spec2Model ----
(***************************************************************************)
(* Model of the window attachment engine of dotline-winstick:             *)
(*   src/src/main/windowAttach.ts  (WindowAttachService)                  *)
(*   src/unnamed/part_000          (X11Provider, imported as x11-provider)*)
(*                                                                         *)
(* JavaScript runs every callback to completion on one thread.  A step of *)
(* the model is one such callback: a host call up to its first await, or  *)
(* a poll: a timer callback together with its continuation once the       *)
(* external tool has exited.  Between the two halves of a poll other      *)
(* callbacks run; the first half only starts the tool, so it commutes     *)
(* with all of them except one that clears the poll's timer.  That case   *)
(* is kept: clearing a timer leaves behind the polls that were awaiting   *)
(* the provider (any number up to MaxStale), and those still resume,      *)
(* because the source has no liveness flag.                               *)
(***************************************************************************)
EXTENDS Integers, Sequences, FiniteSets, Bags, TLC

\* ------------------------------------------------------------------ bounds
\* Polls of cleared timers that may still await the provider at one time.
MaxStale == 1

\* Window ids the environment knows; 0 stands for null (no window).
WindowIds == {1, 2}
\* Timers of one kind that can be set at a time (the engine keeps one).
Slots == {1, 2}

\* ---------------------------------------------------------------- values
None == <<>>
Some(v) == <<v>>

Rect(x, y, w, h) == [x |-> x, y |-> y, width |-> w, height |-> h]
\* screen.getPrimaryDisplay().bounds
DisplayBounds == Rect(0, 0, 1920, 1080)
\* The overlay's bounds when the service is constructed.
HomeBounds == Rect(40, 40, 640, 480)
GeomA == Rect(100, 100, 800, 600)
GeomB == Rect(200, 180, 920, 660)

X11Geometry(r, mapped) ==
  [x |-> r.x, y |-> r.y, width |-> r.width, height |-> r.height, mapped |-> mapped]
\* What getGeometry can return for a window: null, or a geometry.
GeometryResults ==
  {None, Some(X11Geometry(GeomA, TRUE)), Some(X11Geometry(GeomA, FALSE)),
   Some(X11Geometry(GeomB, TRUE))}

Detached == [mode |-> "detached", targetId |-> 0, lastGeometry |-> None]

\* No timer in a slot.
FreeWatch == [windowId |-> 0, last |-> None, live |-> FALSE, inflight |-> 0]
FreeVis == [windowId |-> 0, live |-> FALSE, inflight |-> 0]
FreeFollow == [lastActive |-> 0, live |-> FALSE, inflight |-> 0]

\* ------------------------------------------- X11Provider.getGeometry
\* One line of xwininfo's output, trimmed.  A line with a key getGeometry looks for
\* is the key, then either an integer (digits = TRUE, num its value, negative with a
\* minus sign) or something else; the Map State line carries the state's name.
NumLine(key, n) == [key |-> key, digits |-> TRUE, num |-> n, text |-> ""]
JunkLine(key) == [key |-> key, digits |-> FALSE, num |-> 0, text |-> "n/a"]
MapLine(name) == [key |-> "Map State", digits |-> FALSE, num |-> 0, text |-> name]
OtherLine == [key |-> "Depth", digits |-> TRUE, num |-> 24, text |-> ""]

\* lines 69-73: the values before the first line is read
Unparsed == [x |-> 0, y |-> 0, width |-> 0, height |-> 0, mapped |-> FALSE]
\* lines 75-90: one line.  /X:\s*(\-?\d+)/ takes a sign, /Width:\s*(\d+)/ takes none,
\* so a negative width or height does not match and leaves the value as it was.
ParseLine(p, lx) ==
  IF lx.key = "Absolute upper-left X"
  THEN (IF lx.digits THEN [p EXCEPT !.x = lx.num] ELSE p)
  ELSE IF lx.key = "Absolute upper-left Y"
  THEN (IF lx.digits THEN [p EXCEPT !.y = lx.num] ELSE p)
  ELSE IF lx.key = "Width"
  THEN (IF lx.digits /\ lx.num >= 0 THEN [p EXCEPT !.width = lx.num] ELSE p)
  ELSE IF lx.key = "Height"
  THEN (IF lx.digits /\ lx.num >= 0 THEN [p EXCEPT !.height = lx.num] ELSE p)
  ELSE IF lx.key = "Map State"
  THEN [p EXCEPT !.mapped = (lx.text = "IsViewable")]
  ELSE p
\* line 74: the loop over stdout's lines
RECURSIVE ParseLines(_, _)
ParseLines(p, lines) ==
  IF lines = <<>> THEN p ELSE ParseLines(ParseLine(p, Head(lines)), Tail(lines))

\* What a call returned: a value, or an exception.
Returned(v) == [done |-> TRUE, threw |-> FALSE, value |-> v]
\* a getGeometry that returns whatever it parsed
getGeometryUnchecked(exec) ==
  IF exec.failed THEN Returned(None)
  ELSE LET p == ParseLines(Unparsed, exec.stdout)
       IN Returned(Some(p))
\* X11Provider.getGeometry on a run of xwininfo: the run failed (execFile rejects,
\* line 94 catches) or it printed stdout
getGeometry(exec) ==
  IF exec.failed THEN Returned(None)
  ELSE LET p == ParseLines(Unparsed, exec.stdout)
       IN IF p.width <= 0 \/ p.height <= 0 THEN Returned(None) ELSE Returned(Some(p))

\* The runs of xwininfo getGeometry is tried on: the tool's layout (each line at
\* most once, in the tool's order), any line missing, values good and bad.
Optional(lines) == {<<>>} \cup {<<l>> : l \in lines}
XLines == {NumLine("Absolute upper-left X", n) : n \in {-3, 100}}
            \cup {JunkLine("Absolute upper-left X")}
YLines == {NumLine("Absolute upper-left Y", n) : n \in {0, 100}}
WidthLines == {NumLine("Width", n) : n \in {-5, 0, 800}} \cup {JunkLine("Width")}
HeightLines == {NumLine("Height", n) : n \in {0, 600}}
MapLines == {MapLine(name) : name \in {"IsViewable", "IsUnMapped", "IsUnviewable"}}
XwininfoOutputs ==
  {o \o a \o b \o c \o d \o m :
     o \in Optional({OtherLine}), a \in Optional(XLines), b \in Optional(YLines),
     c \in Optional(WidthLines), d \in Optional(HeightLines), m \in Optional(MapLines)}
XwininfoRuns ==
  {[failed |-> TRUE, stdout |-> <<>>]} \cup
  {[failed |-> FALSE, stdout |-> out] : out \in XwininfoOutputs}
\* no call of getGeometry is being followed
NoRun == [failed |-> FALSE, stdout |-> <<>>]
Pending == [done |-> FALSE, threw |-> FALSE, value |-> None]

VARIABLES
  exec,                 \* the run of xwininfo a followed call of getGeometry awaits
  geometry,             \* what that call returned, or Pending
  enabled,              \* WindowAttachService.enabled
  provider,             \* WindowAttachService.provider is not null
  overlayOpen,          \* getOverlayWindow() returns a window
  state,                \* WindowAttachService.state
  stopWatch,            \* slot of the geometry watcher stopWatch cancels, 0 = null
  stopFollow,           \* slot of the follow timer stopFollow cancels, 0 = null
  stopVisibilityWatch,  \* slot of the focus timer stopVisibilityWatch cancels, 0 = null
  preAttachBounds,      \* None or Some(rect)
  lastMapped,
  lastActive,
  win,                  \* the overlay window: [bounds, visible]
  geoTimers,            \* set geometry timers: the watchGeometry closure (windowId, last)
  visTimers,            \* set visibility timers: the closure (windowId)
  followTimers,         \* set follow timers: the followFocused closure (lastActive), and
                        \* whether its first tick is still in flight
  geoStale,             \* bag of closures of cleared geometry timers with polls in flight
  visStale,             \* the same for cleared visibility timers
  followStale,          \* the same for cleared follow timers
  micro,                \* a follow tick is suspended at `await this.attach(id)`
  world,                \* environment: None while the desktop keeps changing, or
                        \* Some(scene) once focus and geometry have settled for good
  call                  \* history: the host's last call and what it returned

engineVars ==
  <<state, stopWatch, stopFollow, stopVisibilityWatch, preAttachBounds, lastMapped,
    lastActive, win, geoTimers, visTimers, followTimers, geoStale, visStale, followStale>>
configVars == <<enabled, provider, overlayOpen>>
toolVars == <<exec, geometry>>

\* The engine's fields as one value, so that a method is an operator on it.
Cur ==
  [state |-> state, stopWatch |-> stopWatch, stopFollow |-> stopFollow,
   stopVisibilityWatch |-> stopVisibilityWatch, preAttachBounds |-> preAttachBounds,
   lastMapped |-> lastMapped, lastActive |-> lastActive, win |-> win,
   geoTimers |-> geoTimers, visTimers |-> visTimers, followTimers |-> followTimers,
   geoStale |-> geoStale, visStale |-> visStale, followStale |-> followStale,
   writes |-> <<>>, ret |-> TRUE, error |-> FALSE]

\* The slot a new timer of a kind takes.
Alloc(timers) == CHOOSE s \in Slots : ~timers[s].live /\ \A t \in Slots : t < s => timers[t].live

\* Polls of cleared timers of one kind that still await the provider.
RECURSIVE StaleSum(_, _)
StaleSum(bag, cs) ==
  IF cs = {} THEN 0
  ELSE LET c == CHOOSE x \in cs : TRUE
       IN c.inflight * CopiesIn(c, bag) + StaleSum(bag, cs \ {c})
Stale(bag) == StaleSum(bag, BagToSet(bag))
\* A closure joins, or leaves, the closures of cleared timers.
Put(bag, c) == IF c.inflight > 0 THEN bag (+) SetToBag({c}) ELSE bag
Take(bag, c) == bag (-) SetToBag({c})

\* A desktop at rest: the focused window and every window's geometry.
Scene(active, g1, g2) == [active |-> active, geom |-> <<g1, g2>>]
StableWorlds ==
  {Scene(2, Some(X11Geometry(GeomA, TRUE)), Some(X11Geometry(GeomB, TRUE)))}

\* X11Provider.getActiveWindow: the answers the desktop can give now (0 = null)
GetActiveWindow == IF world = None THEN {0} \cup WindowIds ELSE {world[1].active}
\* X11Provider.getGeometry: the answers the desktop can give now for a window
GetGeometry(windowId) ==
  IF world = None THEN GeometryResults ELSE {world[1].geom[windowId]}

\* WindowAttachService.isEnabled
IsEnabled == enabled /\ provider

\* ------------------------------------------------------- overlay writes
SetBounds(e, r) == [e EXCEPT !.win.bounds = r, !.writes = Append(@, "setBounds")]
\* setAlwaysOnTop, setVisibleOnAllWorkspaces, setIgnoreMouseEvents
SetAttributes(e) == [e EXCEPT !.writes = Append(@, "attrs")]
ShowInactive(e) == [e EXCEPT !.win.visible = TRUE, !.writes = Append(@, "show")]
Hide(e) == [e EXCEPT !.win.visible = FALSE, !.writes = Append(@, "hide")]

\* ------------------------------------------------- WindowAttachService
\* an applyOverlayBounds that writes the bounds of a mapped target every time
ApplyOverlayBoundsAlways(e, g, mapped) ==
  IF ~overlayOpen THEN e
  ELSE IF ~mapped THEN (IF e.win.visible THEN Hide(e) ELSE e)
  ELSE LET e1 == SetAttributes(SetBounds(e, Rect(g.x, g.y, g.width, g.height)))
       IN IF ~e1.win.visible THEN ShowInactive(e1) ELSE e1
\* WindowAttachService.applyOverlayBounds
ApplyOverlayBounds(e, g, mapped) ==
  IF ~overlayOpen THEN e
  ELSE IF ~mapped THEN (IF e.win.visible THEN Hide(e) ELSE e)
  ELSE LET b == e.win.bounds IN
       IF b.x # g.x \/ b.y # g.y \/ b.width # g.width \/ b.height # g.height
       THEN LET e1 == SetAttributes(SetBounds(e, Rect(g.x, g.y, g.width, g.height)))
            IN IF ~e1.win.visible THEN ShowInactive(e1) ELSE e1
       ELSE IF ~e.win.visible /\ mapped THEN ShowInactive(e) ELSE e

\* clearInterval: the timer fires no more.  Its closure lives on while polls it
\* started (n of them) await the provider.
ClearInterval(timers, s, free) == [timers EXCEPT ![s] = free]
Orphan(bag, c, n) == Put(bag, [c EXCEPT !.live = FALSE, !.inflight = n])

\* a stopAll that forgets the visibility watchdog
StopAllButVisibility(e, k) ==
  LET e1 == IF e.stopWatch # 0
            THEN [e EXCEPT !.geoTimers = ClearInterval(@, e.stopWatch, FreeWatch),
                           !.geoStale = Orphan(@, e.geoTimers[e.stopWatch], k.geo),
                           !.stopWatch = 0]
            ELSE e
  IN IF e1.stopFollow # 0
     THEN [e1 EXCEPT !.followTimers = ClearInterval(@, e1.stopFollow, FreeFollow),
                     !.followStale = Orphan(@, e1.followTimers[e1.stopFollow], k.follow),
                     !.stopFollow = 0]
     ELSE e1
\* k: the polls in flight on each timer at this moment
StopAll(e, k) ==
  LET e1 == IF e.stopWatch # 0
            THEN [e EXCEPT !.geoTimers = ClearInterval(@, e.stopWatch, FreeWatch),
                           !.geoStale = Orphan(@, e.geoTimers[e.stopWatch], k.geo),
                           !.stopWatch = 0]
            ELSE e
      e2 == IF e1.stopFollow # 0
            THEN [e1 EXCEPT !.followTimers = ClearInterval(@, e1.stopFollow, FreeFollow),
                            !.followStale = Orphan(@, e1.followTimers[e1.stopFollow], k.follow),
                            !.stopFollow = 0]
            ELSE e1
  IN IF e2.stopVisibilityWatch # 0
     THEN [e2 EXCEPT !.visTimers = ClearInterval(@, e2.stopVisibilityWatch, FreeVis),
                     !.visStale = Orphan(@, e2.visTimers[e2.stopVisibilityWatch], k.vis),
                     !.stopVisibilityWatch = 0]
     ELSE e2

RestoreOverlayBounds(e) ==
  IF ~overlayOpen THEN e
  ELSE LET e1 == IF e.preAttachBounds # None
                 THEN SetBounds(e, e.preAttachBounds[1])
                 ELSE SetBounds(e, DisplayBounds)
           e2 == SetAttributes(e1)
       IN IF ~e2.win.visible THEN ShowInactive(e2) ELSE e2

\* a visibility decision that shows when either flag is set
SyncOverlayVisibilityEither(e) ==
  IF ~overlayOpen THEN e
  ELSE LET shouldShow == e.lastMapped \/ e.lastActive IN
       IF shouldShow
       THEN (IF ~e.win.visible THEN ShowInactive(e) ELSE e)
       ELSE (IF e.win.visible THEN Hide(e) ELSE e)
\* WindowAttachService.syncOverlayVisibility
SyncOverlayVisibility(e) ==
  IF ~overlayOpen THEN e
  ELSE LET shouldShow == e.lastMapped /\ e.lastActive IN
       IF shouldShow
       THEN (IF ~e.win.visible THEN ShowInactive(e) ELSE e)
       ELSE (IF e.win.visible THEN Hide(e) ELSE e)

\* an attach that takes the snapshot whatever the mode
CaptureBoundsAlways(e) == [e EXCEPT !.preAttachBounds = Some(e.win.bounds)]
\* attach, lines 108-111: the snapshot detach restores
CaptureBounds(e) ==
  IF e.state.mode = "detached" THEN [e EXCEPT !.preAttachBounds = Some(e.win.bounds)] ELSE e

\* X11Provider.watchGeometry up to its return: a closure with last = null and a timer
WatchGeometry(e, windowId) ==
  LET s == Alloc(e.geoTimers) IN
  [e EXCEPT !.geoTimers[s] = [windowId |-> windowId, last |-> None, live |-> TRUE, inflight |-> 0],
            !.stopWatch = s]

\* an attach that sets no visibility watchdog
WatchVisibilitySkipped(e, windowId) == e
\* attach, lines 133-140: the visibility watchdog's timer
WatchVisibility(e, windowId) ==
  LET s == Alloc(e.visTimers) IN
  [e EXCEPT !.visTimers[s] = [windowId |-> windowId, live |-> TRUE, inflight |-> 0],
            !.stopVisibilityWatch = s]

\* attach has no await: it runs to its return in the caller's step.
AttachOp(e, windowId, k) ==
  IF ~IsEnabled THEN [e EXCEPT !.ret = FALSE]
  ELSE IF ~overlayOpen THEN [e EXCEPT !.ret = FALSE]
  ELSE LET e1 == StopAll(CaptureBounds(e), k)
           e2 == [e1 EXCEPT !.state = [mode |-> "attached", targetId |-> windowId,
                                       lastGeometry |-> None]]
           e3 == WatchVisibility(WatchGeometry(e2, windowId), windowId)
       IN [e3 EXCEPT !.ret = TRUE]

\* the onChange callback attach gives watchGeometry
OnChange(e, g) ==
  LET e1 == [e EXCEPT !.state.lastGeometry = Some(Rect(g.x, g.y, g.width, g.height)),
                      !.lastMapped = g.mapped]
  IN SyncOverlayVisibility(ApplyOverlayBounds(e1, g, g.mapped))

\* an onMissing that gives the attachment up
OnMissingDetaches(e) ==
  LET e1 == [e EXCEPT !.lastMapped = FALSE, !.state = Detached]
  IN IF overlayOpen /\ e1.win.visible THEN Hide(e1) ELSE e1
\* the onMissing callback attach gives watchGeometry
OnMissing(e) ==
  LET e1 == [e EXCEPT !.lastMapped = FALSE]
  IN IF overlayOpen /\ e1.win.visible THEN Hide(e1) ELSE e1

\* the visibility watchdog's callback once getActiveWindow has answered
OnActive(e, windowId, active) ==
  SyncOverlayVisibility([e EXCEPT !.lastActive = (active = windowId)])

\* a detach that gives up like attach and followFocused when the provider is off
DetachOpGuarded(e, k) ==
  IF ~IsEnabled
  THEN [e EXCEPT !.ret = FALSE]
  ELSE LET e1 == [StopAll(e, k) EXCEPT !.state = Detached]
       IN [RestoreOverlayBounds(e1) EXCEPT !.ret = TRUE]
\* WindowAttachService.detach
DetachOp(e, k) ==
  IF ~IsEnabled
  THEN [e EXCEPT !.state = Detached, !.ret = TRUE]
  ELSE LET e1 == [StopAll(e, k) EXCEPT !.state = Detached]
       IN [RestoreOverlayBounds(e1) EXCEPT !.ret = TRUE]

\* followFocused(false), lines 146-152
UnfollowOp(e, k) ==
  IF ~IsEnabled THEN [e EXCEPT !.ret = FALSE]
  ELSE LET e1 == [StopAll(e, k) EXCEPT !.state = Detached]
       IN [RestoreOverlayBounds(e1) EXCEPT !.ret = TRUE]

\* a followFocused(true) that does not ask whether the provider is there
FollowOpUnguarded(e, k) ==
  LET e1 == [StopAll(e, k) EXCEPT !.state = [mode |-> "follow", targetId |-> 0,
                                              lastGeometry |-> None]]
      s == Alloc(e1.followTimers)
  IN [e1 EXCEPT !.followTimers[s] = [lastActive |-> 0, live |-> TRUE, inflight |-> 1],
                !.stopFollow = s, !.ret = TRUE]
\* followFocused(true) up to the await inside its first tick(): the timer is set,
\* and the first tick already awaits getActiveWindow
FollowOp(e, k) ==
  IF ~IsEnabled THEN [e EXCEPT !.ret = FALSE]
  ELSE LET e1 == [StopAll(e, k) EXCEPT !.state = [mode |-> "follow", targetId |-> 0,
                                                   lastGeometry |-> None]]
           s == Alloc(e1.followTimers)
       IN [e1 EXCEPT !.followTimers[s] = [lastActive |-> 0, live |-> TRUE, inflight |-> 1],
                     !.stopFollow = s, !.ret = TRUE]

\* a tick that leaves the mode as attach set it
ForceFollowSkipped(st) == st
\* tick, line 162, after `await this.attach(id)`
ForceFollow(st) == [st EXCEPT !.mode = "follow"]

\* WindowAttachService.getState: a copy of the state
GetState == [mode |-> state.mode, targetId |-> state.targetId,
             lastGeometry |-> state.lastGeometry]

\* WindowAttachService.listWindows: the provider's list, empty without a provider
ListWindows(e) == [e EXCEPT !.ret = IF IsEnabled THEN WindowIds ELSE {}]

\* ------------------------------------------------- the IPC handlers
\* throw new Error("Window attachment requires X11 session on Linux."): the host's
\* request fails, and nothing of the engine has been touched
Throw(e) == [e EXCEPT !.ret = FALSE, !.error = TRUE]
\* windowAttach.list
HandleList(e) == IF ~IsEnabled THEN Throw(e) ELSE ListWindows(e)
\* windowAttach.attach
HandleAttach(e, id, k) == IF ~IsEnabled THEN Throw(e) ELSE AttachOp(e, id, k)
\* windowAttach.detach
HandleDetach(e, k) == DetachOp(e, k)
\* windowAttach.followFocused: the guard comes before the handler looks at enable
HandleFollowFocused(e, enable, k) ==
  IF ~IsEnabled THEN Throw(e)
  ELSE IF enable THEN FollowOp(e, k) ELSE UnfollowOp(e, k)
\* windowAttach.state
HandleState(e) == [e EXCEPT !.ret = GetState]

\* ---------------------------------------------------------------- steps
NoPolls == [geo |-> 0, follow |-> 0, vis |-> 0]
PollCounts == [geo : 0..MaxStale, follow : 0..MaxStale, vis : 0..MaxStale]

\* k can be the polls in flight when e's timers are cleared: a timer that is not set
\* has none, a follow loop's first tick is in flight until a tick has resumed
InFlight(e) ==
  LET room == MaxStale - (Stale(e.geoStale) + Stale(e.visStale) + Stale(e.followStale))
  IN {k \in PollCounts :
        /\ e.stopWatch = 0 => k.geo = 0
        /\ e.stopVisibilityWatch = 0 => k.vis = 0
        /\ IF e.stopFollow = 0 THEN k.follow = 0
           ELSE k.follow >= e.followTimers[e.stopFollow].inflight
        /\ k.geo + k.follow + k.vis <= room}

Commit(e) ==
  /\ state' = e.state
  /\ stopWatch' = e.stopWatch
  /\ stopFollow' = e.stopFollow
  /\ stopVisibilityWatch' = e.stopVisibilityWatch
  /\ preAttachBounds' = e.preAttachBounds
  /\ lastMapped' = e.lastMapped
  /\ lastActive' = e.lastActive
  /\ win' = e.win
  /\ geoTimers' = e.geoTimers
  /\ visTimers' = e.visTimers
  /\ followTimers' = e.followTimers
  /\ geoStale' = e.geoStale
  /\ visStale' = e.visStale
  /\ followStale' = e.followStale

\* What the host's call returns.  attach, detach and followFocused(false) resolve in
\* the step that runs them; followFocused(true) resolves once its first tick has
\* resumed, with the value recorded here.
Return(op, e) == call' = [op |-> op, ret |-> e.ret, error |-> e.error]

EngineInit ==
  /\ enabled \in BOOLEAN
  /\ provider \in BOOLEAN
  /\ provider => enabled
  /\ overlayOpen \in BOOLEAN
  /\ state = Detached
  /\ stopWatch = 0 /\ stopFollow = 0 /\ stopVisibilityWatch = 0
  /\ preAttachBounds = None
  /\ lastMapped = FALSE /\ lastActive = FALSE
  /\ win = [bounds |-> HomeBounds, visible |-> TRUE]
  /\ geoTimers = [s \in Slots |-> FreeWatch]
  /\ visTimers = [s \in Slots |-> FreeVis]
  /\ followTimers = [s \in Slots |-> FreeFollow]
  /\ geoStale = EmptyBag /\ visStale = EmptyBag /\ followStale = EmptyBag
  /\ micro = FALSE
  /\ world = None
  /\ call = [op |-> "none", ret |-> TRUE, error |-> FALSE]
\* the service as constructed; no call of getGeometry is singled out
Init == EngineInit /\ exec = NoRun /\ geometry = Pending

\* ---- the host's calls (they run between callbacks, never inside one).  A call
\* reaches the service through its IPC handler or, from the main process, as a call
\* of the public method; with the provider enabled the two are the same call.
Attach(id) ==
  /\ ~micro
  /\ \E k \in IF IsEnabled /\ overlayOpen THEN InFlight(Cur) ELSE {NoPolls} :
       \E e \in {HandleAttach(Cur, id, k), AttachOp(Cur, id, k)} :
          Commit(e) /\ Return("attach", e)
  /\ UNCHANGED <<configVars, toolVars, world, micro>>

Detach ==
  /\ ~micro
  /\ \E k \in IF IsEnabled THEN InFlight(Cur) ELSE {NoPolls} :
       \E e \in {HandleDetach(Cur, k), DetachOp(Cur, k)} :
          Commit(e) /\ Return("detach", e)
  /\ UNCHANGED <<configVars, toolVars, world, micro>>

FollowFocused(enable) ==
  /\ ~micro
  /\ \E k \in IF IsEnabled THEN InFlight(Cur) ELSE {NoPolls} :
       \E e \in {HandleFollowFocused(Cur, enable, k),
                 IF enable THEN FollowOp(Cur, k) ELSE UnfollowOp(Cur, k)} :
          Commit(e) /\ Return(IF enable THEN "follow" ELSE "unfollow", e)
  /\ UNCHANGED <<configVars, toolVars, world, micro>>

\* ---- X11Provider.watchGeometry: where a callback's closure w lives on after the
\* callback: in the slot s of its timer, or (s = 0, the timer is cleared) with the
\* closures of cleared timers, one poll fewer in flight
KeepWatch(e, w, s) ==
  IF s # 0 THEN [e EXCEPT !.geoTimers[s] = w]
  ELSE [e EXCEPT !.geoStale = Put(@, [w EXCEPT !.inflight = @ - 1])]

\* a level-triggered callback: onChange on every geometry, whatever the last one
GeoCallbackLevel(e, w, g, s) ==
  IF g = None
  THEN OnMissing(KeepWatch(e, w, s))
  ELSE OnChange(KeepWatch(e, [w EXCEPT !.last = g], s), g[1])
\* lines 106-114: the timer callback once getGeometry has answered g
GeoCallback(e, w, g, s) ==
  IF g = None
  THEN OnMissing(KeepWatch(e, w, s))
  ELSE IF w.last = None \/ g[1].x # w.last[1].x \/ g[1].y # w.last[1].y
            \/ g[1].width # w.last[1].width \/ g[1].height # w.last[1].height
            \/ g[1].mapped # w.last[1].mapped
       THEN OnChange(KeepWatch(e, [w EXCEPT !.last = g], s), g[1])
       ELSE KeepWatch(e, w, s)

\* the engine after a poll of the set geometry timer s
GeoPolled(s, g) == GeoCallback(Cur, geoTimers[s], g, s)

\* the engine after a poll that was in flight when its timer was cleared
GeoStalePolled(c, g) == GeoCallback([Cur EXCEPT !.geoStale = Take(@, c)], c, g, 0)

GeoPoll(s, g) ==
  /\ ~micro
  /\ geoTimers[s].live
  /\ g \in GetGeometry(geoTimers[s].windowId)
  /\ Commit(GeoPolled(s, g))
  /\ UNCHANGED <<configVars, toolVars, world, micro, call>>

GeoStalePoll(c, g) ==
  /\ ~micro
  /\ BagIn(c, geoStale)
  /\ g \in GetGeometry(c.windowId)
  /\ Commit(GeoStalePolled(c, g))
  /\ UNCHANGED <<configVars, toolVars, world, micro, call>>

\* ---- a poll of the visibility watchdog (attach, lines 133-139)
VisPolled(s, active) == OnActive(Cur, visTimers[s].windowId, active)

VisStalePolled(c, active) ==
  OnActive([Cur EXCEPT !.visStale = Put(Take(@, c), [c EXCEPT !.inflight = @ - 1])],
           c.windowId, active)

VisPoll(s, active) ==
  /\ ~micro
  /\ visTimers[s].live
  /\ active \in GetActiveWindow
  /\ Commit(VisPolled(s, active))
  /\ UNCHANGED <<configVars, toolVars, world, micro, call>>

VisStalePoll(c, active) ==
  /\ ~micro
  /\ BagIn(c, visStale)
  /\ active \in GetActiveWindow
  /\ Commit(VisStalePolled(c, active))
  /\ UNCHANGED <<configVars, toolVars, world, micro, call>>

\* ---- followFocused: where a tick's closure f lives on after the tick: in the slot s
\* of its timer (the loop's first tick is no longer in flight), or (s = 0, the timer
\* is cleared) with the closures of cleared timers, one tick fewer in flight
KeepFollow(e, f, s) ==
  IF s # 0 THEN [e EXCEPT !.followTimers[s] = [f EXCEPT !.inflight = 0]]
  ELSE [e EXCEPT !.followStale = Put(@, [f EXCEPT !.inflight = @ - 1])]

\* lines 157-161: a tick once getActiveWindow has answered id, up to its await of
\* attach.  The other ticks of the loop in flight are left behind by attach's stopAll.
FollowResume(e, f, id, s) ==
  IF id # 0 /\ id # f.lastActive
  THEN LET e1 == KeepFollow(e, [f EXCEPT !.lastActive = id], s)
       IN /\ \E k \in IF IsEnabled /\ overlayOpen THEN InFlight(e1) ELSE {NoPolls} :
               Commit(AttachOp(e1, id, k))
          /\ micro' = TRUE
  ELSE /\ Commit(KeepFollow(e, f, s))
       /\ micro' = FALSE

\* a tick of a set follow timer, or the first tick followFocused starts itself
FollowPoll(s, id) ==
  /\ ~micro
  /\ followTimers[s].live
  /\ id \in GetActiveWindow
  /\ FollowResume(Cur, followTimers[s], id, s)
  /\ UNCHANGED <<configVars, toolVars, world, call>>

FollowStalePoll(c, id) ==
  /\ ~micro
  /\ BagIn(c, followStale)
  /\ id \in GetActiveWindow
  /\ FollowResume([Cur EXCEPT !.followStale = Take(@, c)], c, id, 0)
  /\ UNCHANGED <<configVars, toolVars, world, call>>

\* tick resumes after `await this.attach(id)`: a microtask, so nothing runs between
FollowForce ==
  /\ micro
  /\ micro' = FALSE
  /\ state' = ForceFollow(state)
  /\ UNCHANGED <<configVars, toolVars, world, call, stopWatch, stopFollow, stopVisibilityWatch,
                 preAttachBounds, lastMapped, lastActive, win, geoTimers, visTimers,
                 followTimers, geoStale, visStale, followStale>>

\* ---- the environment: focus and geometry stop changing
Settle(scene) ==
  /\ world = None
  /\ world' = Some(scene)
  /\ UNCHANGED <<configVars, toolVars, engineVars, micro, call>>

Actives == {0} \cup WindowIds

Polls ==
  \/ \E s \in Slots, g \in GeometryResults : GeoPoll(s, g)
  \/ \E c \in BagToSet(geoStale), g \in GeometryResults : GeoStalePoll(c, g)
  \/ \E s \in Slots, a \in Actives : VisPoll(s, a)
  \/ \E c \in BagToSet(visStale), a \in Actives : VisStalePoll(c, a)
  \/ \E s \in Slots, a \in Actives : FollowPoll(s, a)
  \/ \E c \in BagToSet(followStale), a \in Actives : FollowStalePoll(c, a)
  \/ FollowForce

Next ==
  \/ \E id \in WindowIds : Attach(id)
  \/ Detach
  \/ \E enable \in BOOLEAN : FollowFocused(enable)
  \/ Polls

vars == <<exec, geometry, enabled, provider, overlayOpen, state, stopWatch, stopFollow, stopVisibilityWatch,
          preAttachBounds, lastMapped, lastActive, win, geoTimers, visTimers, followTimers,
          geoStale, visStale, followStale, micro, world, call>>

Spec == Init /\ [][Next]_vars

\* The same engine on a desktop that may come to rest.  A set timer keeps firing and
\* an external tool that was started exits: setInterval and execFile guarantee both.
NextSettling == Next \/ \E scene \in StableWorlds : Settle(scene)
Fairness ==
  /\ WF_vars(\E s \in Slots, g \in GeometryResults : GeoPoll(s, g))
  /\ WF_vars(\E c \in BagToSet(geoStale), g \in GeometryResults : GeoStalePoll(c, g))
  /\ WF_vars(\E s \in Slots, a \in Actives : VisPoll(s, a))
  /\ WF_vars(\E c \in BagToSet(visStale), a \in Actives : VisStalePoll(c, a))
  /\ WF_vars(\E s \in Slots, a \in Actives : FollowPoll(s, a))
  /\ WF_vars(\E c \in BagToSet(followStale), a \in Actives : FollowStalePoll(c, a))
  /\ WF_vars(FollowForce)
LiveInit == Init /\ enabled /\ provider /\ overlayOpen
LiveSpec == LiveInit /\ [][NextSettling]_vars /\ Fairness

\* One call of getGeometry followed from the tool's exit to its return, on every run
\* of XwininfoRuns; the engine stands still.
ParseInit ==
  /\ EngineInit /\ enabled /\ provider /\ overlayOpen
  /\ exec \in XwininfoRuns
  /\ geometry = Pending
GetGeometryReturns ==
  /\ ~geometry.done
  /\ geometry' = getGeometry(exec)
  /\ UNCHANGED <<exec, configVars, engineVars, micro, world, call>>
ParseNext == GetGeometryReturns
ParseSpec == ParseInit /\ [][ParseNext]_vars

\* ================================================================ claims
HasWrite(e) == e.writes # <<>>
NoTimerSet ==
  \A s \in Slots : ~geoTimers[s].live /\ ~visTimers[s].live /\ ~followTimers[s].live

\* C1: once detach has returned and until the host's next call, no callback writes to
\* the overlay (setBounds, show, hide): not a geometry poll, not a focus poll, not
\* one that was awaiting the provider when detach ran.
C1_NoWriteAfterDetach ==
  [][call.op = "detach" =>
       /\ \A s \in Slots, g \in GeometryResults :
            GeoPoll(s, g) => ~HasWrite(GeoPolled(s, g))
       /\ \A c \in BagToSet(geoStale), g \in GeometryResults :
            GeoStalePoll(c, g) => ~HasWrite(GeoStalePolled(c, g))
       /\ \A s \in Slots, a \in Actives :
            VisPoll(s, a) => ~HasWrite(VisPolled(s, a))
       /\ \A c \in BagToSet(visStale), a \in Actives :
            VisStalePoll(c, a) => ~HasWrite(VisStalePolled(c, a))]_vars

\* C2: once detach has returned and until the host's next call, the state is
\* {detached, null, null} and no timer is set; a follow tick that was awaiting
\* getActiveWindow when detach ran neither attaches nor sets mode follow.
C2_StaysDetached ==
  call.op = "detach" => state = Detached /\ NoTimerSet

\* The engine is attached to b: b is the target and both watchers poll b.
WatchersOn(b) ==
  /\ state.targetId = b
  /\ stopWatch # 0 /\ geoTimers[stopWatch].windowId = b
  /\ stopVisibilityWatch # 0 /\ visTimers[stopVisibilityWatch].windowId = b

\* C3: in follow mode, when the focus has moved from the followed window to another
\* window b (world[1].active) and stays there, the engine eventually re-attaches to
\* b (target b, both watchers restarted for b), unless the host ends the follow
\* session first.
C3_FollowReattaches ==
  (world # None /\ state.mode = "follow" /\ state.targetId \in WindowIds
     /\ state.targetId # world[1].active)
    ~> ((world # None /\ WatchersOn(world[1].active))
          \/ state.mode # "follow" \/ state.targetId = 0)

\* C4: from the followFocused(true) that set mode follow until the host's next call,
\* every state getState can return has mode follow, also after the follow loop has
\* attached to a window.  (The host's handlers run between callbacks, never between
\* a tick's attach and its next statement.)
C4_FollowModeObserved ==
  (call.op = "follow" /\ call.ret /\ ~micro) => GetState.mode = "follow"
C4_Witness ==
  /\ call.op = "follow" /\ call.ret /\ ~micro
  /\ GetState.mode = "follow" /\ GetState.targetId # 0
  /\ stopWatch # 0

\* C5: detach returns true and leaves the state {detached, null, null}, whatever the
\* state before it (detached, attached, follow) and whether or not the provider is
\* enabled.
C5_DetachNeverFails ==
  [][(call'.op = "detach" /\ Detach) => (call'.ret /\ state' = Detached)]_vars
\* detach has returned true after an attachment (a snapshot exists) and a follow
\* session (one of its ticks is still in flight)
C5_Witness ==
  /\ call = [op |-> "detach", ret |-> TRUE, error |-> FALSE]
  /\ state = Detached
  /\ IsEnabled /\ preAttachBounds # None /\ Stale(followStale) > 0

\* The desktop is at rest with the engine's target focused and mapped.
TargetAtRest ==
  /\ world # None
  /\ state.mode \in {"attached", "follow"}
  /\ WatchersOn(world[1].active)
  /\ world[1].geom[world[1].active] # None
  /\ world[1].geom[world[1].active][1].mapped
\* The overlay lies exactly on the target's geometry and is visible.
OverlayOnTarget ==
  LET g == world[1].geom[world[1].active][1]
  IN win.bounds = Rect(g.x, g.y, g.width, g.height) /\ win.visible

\* C6: while attached (or follow-attached) to a target that stays mapped and focused,
\* once the target's geometry has changed to a value G the watcher has not reported
\* yet and stays G, the overlay's bounds eventually equal G and the overlay is
\* visible (unless the host leaves the target first); timers tick, polls succeed.
C6_OverlayConverges ==
  (TargetAtRest /\ geoTimers[stopWatch].last # world[1].geom[world[1].active])
    ~> ((world # None /\ OverlayOnTarget) \/ ~TargetAtRest)

Shows(e) == \E i \in DOMAIN e.writes : e.writes[i] = "show"

\* C7: during an attachment to T the overlay is shown only if, since that attach, a
\* geometry poll of T has reported mapped = true and a focus poll has reported T;
\* flags left over from an earlier attachment never show it.  The watcher's closure
\* and lastGeometry tell when no geometry poll has answered since the attach (both
\* null): a focus poll of the attachment that resumes then must not show the overlay.
C7_ShownOnlyAfterPolls ==
  [][\A s \in Slots, a \in Actives :
       (/\ VisPoll(s, a)
        /\ s = stopVisibilityWatch
        /\ stopWatch # 0 /\ geoTimers[stopWatch].last = None
        /\ state.lastGeometry = None
        /\ geoStale = EmptyBag /\ visStale = EmptyBag /\ followStale = EmptyBag)
         => ~Shows(VisPolled(s, a))]_vars

ShouldShow == lastMapped /\ lastActive
\* the step runs the onChange callback of the current attachment's geometry watcher
GeoChangeStep ==
  /\ stopWatch # 0
  /\ \E g \in GeometryResults :
       g # None /\ g # geoTimers[stopWatch].last /\ GeoPoll(stopWatch, g)
\* the step runs the callback of the current attachment's focus timer
FocusPollStep ==
  /\ stopVisibilityWatch # 0
  /\ \E a \in Actives : VisPoll(stopVisibilityWatch, a)
\* what the claim asks of a step that ran a callback of the current attachment
TruthTableStep ==
  /\ win'.visible <=> ShouldShow'
  /\ ((lastMapped' # lastMapped) # (lastActive' # lastActive))
       => ((win'.visible # win.visible) <=> (ShouldShow' # ShouldShow))

\* C8: after every geometry-change callback and every focus-poll callback of the
\* current attachment the overlay is visible iff lastMapped and lastActive are both
\* true, and a callback that changes one of the two flags changes the visibility
\* exactly when the conjunction changes its value.
C8_VisibilityTruthTable ==
  [][TruthTableStep \/ ~(GeoChangeStep \/ FocusPollStep)]_vars

\* the same, for a callback that starts with the visibility in step with the flags
SyncedTruthTableStep ==
  /\ win'.visible <=> ShouldShow'
  /\ ((win.visible <=> ShouldShow)
        /\ ((lastMapped' # lastMapped) # (lastActive' # lastActive)))
       => ((win'.visible # win.visible) <=> (ShouldShow' # ShouldShow))

\* C8 (amended): after every geometry-change callback and every focus-poll callback
\* of the current attachment the overlay is visible iff lastMapped and lastActive are
\* both true; a callback that changes one flag changes the visibility exactly when
\* the conjunction changes its value, provided the visibility agreed with the
\* conjunction when the callback started.
C8_TruthTableOnceSynced ==
  [][SyncedTruthTableStep \/ ~(GeoChangeStep \/ FocusPollStep)]_vars
\* both callbacks of an attachment have run and have shown the overlay on its target
C8_Witness ==
  /\ stopWatch # 0 /\ geoTimers[stopWatch].last # None
  /\ state.mode = "attached" /\ state.lastGeometry # None
  /\ lastMapped /\ lastActive /\ win.visible
  /\ win.bounds = state.lastGeometry[1]

SetBoundsCount(e) == Cardinality({i \in DOMAIN e.writes : e.writes[i] = "setBounds"})
Observable(e) == [mode |-> e.state.mode, targetId |-> e.state.targetId]

\* C9: detach called twice in a row, from any state the engine can be in and with
\* any polls in flight, leaves after the second call the observable state the first
\* left (detached, no target), and both calls together write the overlay's bounds at
\* most once.
C9_DetachIdempotent ==
  \A k \in IF IsEnabled THEN InFlight(Cur) ELSE {NoPolls} :
    LET once == DetachOp(Cur, k)
        twice == DetachOp(once, NoPolls)
    IN /\ Observable(twice) = Observable(once)
       /\ Observable(twice) = [mode |-> "detached", targetId |-> 0]
       /\ SetBoundsCount(twice) <= 1

\* C10: a cycle that starts with the host's attach in mode detached and ends with
\* detach: (1) that attach snapshots the bounds the overlay has just before it, (2) no
\* step taken while the engine is not detached replaces the snapshot, further
\* attaches included, (3) detach sets the overlay's bounds to the snapshot; a new
\* snapshot is taken by the next attach from detached, by (1).
C10_RestoreRoundTrip ==
  [][/\ \A id \in WindowIds :
          (state.mode = "detached" /\ IsEnabled /\ overlayOpen /\ call'.op = "attach"
             /\ Attach(id))
            => preAttachBounds' = Some(win.bounds)
     /\ state.mode # "detached" => preAttachBounds' = preAttachBounds
     /\ (state.mode # "detached" /\ preAttachBounds # None /\ call'.op = "detach"
           /\ Detach)
          => win'.bounds = preAttachBounds[1]]_vars
\* detach has returned after two attachments with no detach between them, during
\* which a geometry callback ran: the overlay is back on the bounds it had before
C10_Witness ==
  /\ call.op = "detach" /\ state = Detached
  /\ preAttachBounds = Some(HomeBounds) /\ win.bounds = HomeBounds
  /\ lastMapped
  /\ \E c \in BagToSet(geoStale) : c.windowId = 2 /\ c.last = None

\* C11: without a usable provider, a call of attach(id) or of followFocused(true)
\* returns false, sets no timer, writes nothing to the overlay and leaves every field
\* of the engine, the state included, as it was.
C11_DisabledCallsDoNothing ==
  [][\A id \in WindowIds :
       (/\ ~IsEnabled /\ ~call'.error /\ call'.op \in {"attach", "follow"}
        /\ (Attach(id) \/ FollowFocused(TRUE)))
       => /\ call'.ret = FALSE
          /\ UNCHANGED engineVars
          /\ NoTimerSet'
          /\ ~HasWrite(AttachOp(Cur, id, NoPolls)) /\ ~HasWrite(FollowOp(Cur, NoPolls))]_vars
\* followFocused(true) has been called on a service without a provider, and has
\* returned false
C11_Witness ==
  /\ ~IsEnabled /\ overlayOpen
  /\ call = [op |-> "follow", ret |-> FALSE, error |-> FALSE]
  /\ state = Detached /\ NoTimerSet /\ win = [bounds |-> HomeBounds, visible |-> TRUE]

\* C12: followFocused(false) does what detach() does: from every state the engine
\* can be in, with any polls in flight and with or without a provider, it returns
\* true and leaves the same state, the same timers cleared and the same overlay
\* writes issued as detach() called in its place.
C12_UnfollowIsDetach ==
  \A k \in IF IsEnabled THEN InFlight(Cur) ELSE {NoPolls} :
    /\ UnfollowOp(Cur, k).ret = TRUE
    /\ UnfollowOp(Cur, k) = DetachOp(Cur, k)

\* C13: when the provider is not enabled, the host's requests list, attach(id) and
\* followFocused(true) fail with the provider-unavailable error, and its requests
\* detach, state and followFocused(false) do not fail.
C13_HandlersWithoutProvider ==
  ~IsEnabled =>
    /\ HandleList(Cur).error
    /\ \A id \in WindowIds : HandleAttach(Cur, id, NoPolls).error
    /\ HandleFollowFocused(Cur, TRUE, NoPolls).error
    /\ ~HandleDetach(Cur, NoPolls).error
    /\ ~HandleState(Cur).error
    /\ ~HandleFollowFocused(Cur, FALSE, NoPolls).error

\* what attach(id) is to leave behind in the engine e: the state {attached, id, null},
\* one geometry watcher and one focus watcher, both of id and both fresh, and no
\* other timer set
AttachedTo(e, id) ==
  /\ e.state = [mode |-> "attached", targetId |-> id, lastGeometry |-> None]
  /\ e.stopWatch # 0 /\ e.stopVisibilityWatch # 0 /\ e.stopFollow = 0
  /\ \A s \in Slots :
       /\ e.geoTimers[s].live <=> s = e.stopWatch
       /\ e.visTimers[s].live <=> s = e.stopVisibilityWatch
       /\ ~e.followTimers[s].live
  /\ e.geoTimers[e.stopWatch] =
       [windowId |-> id, last |-> None, live |-> TRUE, inflight |-> 0]
  /\ e.visTimers[e.stopVisibilityWatch] = [windowId |-> id, live |-> TRUE, inflight |-> 0]

\* C14: with the provider enabled, attach(id) returns true for every id, from every
\* state and with any polls in flight, and when it returns the state is
\* {attached, id, null}, every watcher that was active is cancelled, and a geometry
\* watcher and a focus watcher of id are running.
C14_AttachPostcondition ==
  IsEnabled =>
    \A id \in WindowIds, k \in IF overlayOpen THEN InFlight(Cur) ELSE {NoPolls} :
      LET e == AttachOp(Cur, id, k) IN e.ret /\ AttachedTo(e, id)

\* C14 (amended): with the provider enabled and an overlay window to attach,
\* attach(id) returns true for every id, from every state and with any polls in
\* flight, and when it returns the state is {attached, id, null}, every watcher that
\* was active is cancelled, and a geometry watcher and a focus watcher of id are
\* running.  With the provider enabled and no overlay window, attach(id) returns
\* false and changes nothing.
C14_AttachPostconditionWithOverlay ==
  IsEnabled =>
    \A id \in WindowIds, k \in IF overlayOpen THEN InFlight(Cur) ELSE {NoPolls} :
      LET e == AttachOp(Cur, id, k)
      IN IF overlayOpen THEN e.ret /\ AttachedTo(e, id)
         ELSE e = [Cur EXCEPT !.ret = FALSE]
\* attach(2) has returned true and has replaced an attachment, one of whose polls
\* is still in flight
C14_Witness ==
  /\ call = [op |-> "attach", ret |-> TRUE, error |-> FALSE]
  /\ AttachedTo(Cur, 2)
  /\ Stale(geoStale) + Stale(visStale) + Stale(followStale) > 0
  /\ preAttachBounds # None

\* The current watcher reported the target mapped, then a poll of it found no
\* geometry: the watcher still remembers the geometry, the mapped flag is cleared and
\* the overlay is hidden.
TargetMissed ==
  /\ state.mode = "attached" /\ stopWatch # 0
  /\ geoTimers[stopWatch].last # None /\ geoTimers[stopWatch].last[1].mapped
  /\ state.lastGeometry # None
  /\ ~lastMapped /\ ~win.visible

\* C15: after the target went missing (a geometry poll found nothing, the overlay
\* was hidden) and has come back mapped, focused and with the geometry it had before
\* the miss, the overlay eventually becomes visible again with no call of the host
\* (timers tick, polls succeed).
C15_ReappearShows ==
  (TargetAtRest /\ TargetMissed /\ geoTimers[stopWatch].last = world[1].geom[world[1].active])
    ~> (win.visible \/ ~TargetAtRest)

\* the step resumes a poll of a watcher that was cancelled, made for a window that
\* is not the current target
CancelledWatcherStep ==
  \/ \E c \in BagToSet(geoStale), g \in GeometryResults :
       c.windowId # state.targetId /\ GeoStalePoll(c, g)
  \/ \E c \in BagToSet(visStale), a \in Actives :
       c.windowId # state.targetId /\ VisStalePoll(c, a)

\* C16: once attach(B) has replaced an attachment to A, a callback of A's cancelled
\* watchers, even one whose poll was in flight at the attach, changes neither
\* lastGeometry, nor the mapped flag, nor the focused-target flag, nor the overlay's
\* bounds: these are updated from polls made for B only.
C16_CancelledWatcherSilent ==
  [][(state.mode = "attached" /\ CancelledWatcherStep) =>
       (UNCHANGED <<state, lastMapped, lastActive>> /\ win'.bounds = win.bounds)]_vars

\* the step resumes a geometry poll made for the current target
TargetGeoPollStep ==
  \/ \E s \in Slots, g \in GeometryResults :
       geoTimers[s].windowId = state.targetId /\ GeoPoll(s, g)
  \/ \E c \in BagToSet(geoStale), g \in GeometryResults :
       c.windowId = state.targetId /\ GeoStalePoll(c, g)

\* C17: in every reachable state, mode detached implies no target and no
\* lastGeometry, and mode attached implies a target; lastGeometry is set only if a
\* geometry poll of the current target has succeeded since the current attach: the
\* steps that set it are polls made for the target of that moment, and attach
\* clears it.
C17_StateInvariants ==
  /\ [](/\ state.mode = "detached" => (state.targetId = 0 /\ state.lastGeometry = None)
        /\ state.mode = "attached" => state.targetId # 0)
  /\ [][(state'.lastGeometry # None /\ state'.lastGeometry # state.lastGeometry)
          => (state.mode # "detached" /\ TargetGeoPollStep)]_vars

\* C18: a watcher fires onChange at most once for a geometry that successive polls
\* keep answering: the callback that is answered g leaves g as the watcher's last
\* geometry, and a callback that is answered the watcher's last geometry changes
\* nothing and writes nothing.  The same holds of a poll still in flight when the
\* watcher's timer has fired again or was cleared: it resumes against the last
\* geometry of that moment.
C18_SameGeometryFiresOnce ==
  /\ \A s \in Slots, g \in GeometryResults \ {None} :
       geoTimers[s].live =>
         /\ GeoPolled(s, g).geoTimers[s].last = g
         /\ geoTimers[s].last = g => GeoPolled(s, g) = Cur
  /\ \A c \in BagToSet(geoStale), g \in GeometryResults \ {None} :
       LET rest == [Cur EXCEPT !.geoStale = Take(@, c)]
           done == GeoStalePolled(c, g)
       IN /\ c.inflight > 1 => BagIn([c EXCEPT !.last = g, !.inflight = @ - 1], done.geoStale)
          /\ c.last = g => done = KeepWatch(rest, c, 0)
\* the current watcher has reported a geometry, and so has a cancelled watcher one of
\* whose polls is still in flight
C18_Witness ==
  /\ stopWatch # 0 /\ geoTimers[stopWatch].last # None
  /\ state.lastGeometry # None
  /\ \E c \in BagToSet(geoStale) : c.last # None

\* the step runs the onMissing callback: a geometry poll, of a set timer or still in
\* flight from a cleared one, that found no geometry
MissingStep ==
  \/ \E s \in Slots : GeoPoll(s, None)
  \/ \E c \in BagToSet(geoStale) : GeoStalePoll(c, None)

\* C19: the missing-geometry callback leaves the overlay hidden and the mapped flag
\* cleared, writes nothing but a hide, and leaves mode, targetId, lastGeometry, the
\* overlay's bounds and the set timers as they were; so no number of misses detaches.
C19_MissingKeepsAttachment ==
  [][MissingStep =>
       /\ ~lastMapped' /\ ~win'.visible
       /\ win'.bounds = win.bounds
       /\ OnMissing(Cur).writes \in {<<>>, <<"hide">>}
       /\ UNCHANGED <<state, stopWatch, stopFollow, stopVisibilityWatch, preAttachBounds,
                      lastActive, geoTimers, visTimers, followTimers>>]_vars
\* the current watcher reported the target, the overlay was put on its geometry, and
\* a later poll has found the target missing: hidden, still attached, the geometry
\* and the bounds kept, both timers set
C19_Witness ==
  /\ TargetMissed /\ lastActive
  /\ win.bounds = state.lastGeometry[1]
  /\ Stale(geoStale) = 0 /\ visTimers[stopVisibilityWatch].live

\* the overlay writes of a callback that did at most hide the overlay
HidesOnly(e) == e.writes \in {<<>>, <<"hide">>}

\* C20: while attached, a geometry-change callback or a focus callback that ends
\* with shouldShow (mapped and focused) false does not write the overlay's bounds: it
\* hides the overlay if it is visible and writes nothing else.  The bounds change
\* only in a step that ends with shouldShow true, or in a detach.
C20_BoundsOnlyWhenShown ==
  [][/\ \A g \in GeometryResults :
          (/\ state.mode = "attached" /\ stopWatch # 0 /\ g # None /\ ~ShouldShow'
           /\ GeoPoll(stopWatch, g))
          => HidesOnly(GeoPolled(stopWatch, g))
     /\ \A a \in Actives :
          (/\ state.mode = "attached" /\ stopVisibilityWatch # 0 /\ ~ShouldShow'
           /\ VisPoll(stopVisibilityWatch, a))
          => HidesOnly(VisPolled(stopVisibilityWatch, a))
     /\ win'.bounds # win.bounds => (ShouldShow' \/ call'.op \in {"detach", "unfollow"})]_vars

\* the overlay writes of a kind that e records
Writes(e, kind) == {i \in DOMAIN e.writes : e.writes[i] = kind}
\* the geometries a poll of a watcher whose last geometry is last can answer that
\* make its callback run onChange with the target mapped and the overlay already on
\* the target's geometry
MatchingChanges(last) ==
  {g \in GeometryResults \ {None} :
     /\ g # last /\ g[1].mapped
     /\ win.bounds = Rect(g[1].x, g[1].y, g[1].width, g[1].height)}
\* the engines such a callback can leave, of a set timer or of a cleared one with a
\* poll in flight
AfterMatchingChange ==
  UNION {{GeoPolled(s, g) : g \in MatchingChanges(geoTimers[s].last)} :
           s \in {t \in Slots : geoTimers[t].live}}
  \cup UNION {{GeoStalePolled(c, g) : g \in MatchingChanges(c.last)} :
                c \in BagToSet(geoStale)}

FollowCycle(id) ==
  LET e1 == FollowOp(Cur, NoPolls)
      s == e1.stopFollow
      e2 == AttachOp(KeepFollow(e1, [e1.followTimers[s] EXCEPT !.lastActive = id], s),
                     id, NoPolls)
      e3 == [e2 EXCEPT !.state = ForceFollow(@)]
  IN DetachOp(e3, NoPolls)

\* C22: a cycle that starts detached with followFocused(true) and ends with detach()
\* leaves the overlay on the bounds it had just before the follow loop's first
\* attach of the cycle, which are the bounds it has when the cycle starts if nothing
\* else writes them: not on a snapshot of an earlier cycle, not on the display's.
C22_FollowRestoreRoundTrip ==
  (state = Detached /\ IsEnabled /\ overlayOpen /\ ~micro) =>
    \A id \in WindowIds : FollowCycle(id).win.bounds = win.bounds

\* C23: in every reachable state at most one geometry timer, one focus timer and
\* one follow timer are set, each of them the one its stop handle clears (no timer
\* is set that the engine cannot reach), and in mode detached no timer is set: every
\* transition clears the timers it finds before it assigns the state.
C23_TimersOwned ==
  /\ \A s \in Slots :
       /\ geoTimers[s].live <=> s = stopWatch
       /\ visTimers[s].live <=> s = stopVisibilityWatch
       /\ followTimers[s].live <=> s = stopFollow
  /\ state.mode = "detached" => NoTimerSet
\* a second attachment has replaced a first one whose polls are still in flight, and
\* its two timers are the only ones set
C23_Witness ==
  /\ state.mode = "attached" /\ state.targetId = 2
  /\ stopWatch # 0 /\ stopVisibilityWatch # 0 /\ stopFollow = 0
  /\ \E c \in BagToSet(geoStale) : c.windowId = 1
  /\ C23_TimersOwned

\* the integer xwininfo printed for a key, 0 if it printed no line or no integer for
\* it; a width or a height is an unsigned integer, so a negative one is no integer
Field(out, key, signed) ==
  LET ns == {out[i].num : i \in {j \in DOMAIN out :
                 /\ out[j].key = key /\ out[j].digits
                 /\ (signed \/ out[j].num >= 0)}}
  IN IF ns = {} THEN 0 ELSE CHOOSE n \in ns : TRUE
\* xwininfo printed a Map State line that says IsViewable
Viewable(out) ==
  \E i \in DOMAIN out : out[i].key = "Map State" /\ out[i].text = "IsViewable"

\* C24: getGeometry returns null whenever the width or the height it parsed is <= 0,
\* a missing or unreadable line counting as 0, and whenever the tool fails; otherwise
\* it returns the parsed x, y, width and height, with mapped true exactly if a Map
\* State line says IsViewable (false without such a line).  It never throws.
C24_GetGeometryParses ==
  geometry.done =>
    LET out == exec.stdout
        w == Field(out, "Width", FALSE)
        h == Field(out, "Height", FALSE)
    IN /\ ~geometry.threw
       /\ IF exec.failed \/ w <= 0 \/ h <= 0
          THEN geometry.value = None
          ELSE geometry.value =
                 Some([x |-> Field(out, "Absolute upper-left X", TRUE),
                       y |-> Field(out, "Absolute upper-left Y", TRUE),
                       width |-> w, height |-> h, mapped |-> Viewable(out)])
\* getGeometry has returned a geometry for an output with no Map State line and no
\* readable X line: x = 0, mapped = false
C24_Witness ==
  /\ geometry.done /\ ~exec.failed /\ geometry.value # None
  /\ \A i \in DOMAIN exec.stdout : exec.stdout[i].key # "Map State"
  /\ JunkLine("Absolute upper-left X") \in {exec.stdout[i] : i \in DOMAIN exec.stdout}
  /\ geometry.value[1].x = 0 /\ ~geometry.value[1].mapped /\ geometry.value[1].width = 800
====
